---- MODULE Spec2Model ----
(***************************************************************************)
(* A model of nom-parse-trait (src/src/lib.rs): the ParseFrom decoders of  *)
(* the primitive types, of the wrapper types, of the line-separated        *)
(* collections and of the fixed-size array, and                            *)
(* ParseFromExt::parse_complete.                                           *)
(*                                                                         *)
(* An input is the sequence of its elements' storage: for a &str and a     *)
(* &[u8] the sequence of its bytes, for an input whose elements are byte   *)
(* strings (Item: AsBytes) the sequence of those strings.  A remainder and *)
(* an error position are suffixes of the input, as the slices the code     *)
(* returns are.                                                            *)
(***************************************************************************)
EXTENDS Integers, Sequences, FiniteSets, TLC

VARIABLES
    ty,          \* the type whose decoder is called (a type descriptor)
    ikind,       \* "str" (a &str), "bytes" (a &[u8]) or "items" (an input
                 \* of the caller whose elements implement AsBytes)
    input,       \* the input handed to the call
    given,       \* how the input was put together (the test's expectation)
    pc,          \* "call", "loop" (inside the array decoder), "parsed", "done"
    res,         \* the IResult of T::parse, or its panic
    out,         \* the Result (or the panic) of T::parse_complete
    arr,         \* the array decoder's slots (MaybeUninit<T>)
    i,           \* the array decoder's loop index
    cur,         \* the array decoder's local `input`
    drops,       \* how often each slot's element was destroyed
    elemDecodes, \* T::parse calls made by the array decoder
    sepDecodes   \* separator.parse calls made by the array decoder

vars == <<ty, ikind, input, given, pc, res, out, arr, i, cur, drops,
          elemDecodes, sepDecodes>>

-----------------------------------------------------------------------------
(* Bounds of the model *)

\* the longest input drawn from an alphabet, in characters
MaxLen == 3
\* the largest array length N of the inputs drawn from an alphabet
MaxN == 3
\* the most entries of a map input put together from entry texts
MaxEntries == 2

-----------------------------------------------------------------------------
(* Characters and inputs *)

Ascii ==
    ("0" :> 48) @@ ("1" :> 49) @@ ("2" :> 50) @@ ("3" :> 51) @@ ("4" :> 52) @@
    ("5" :> 53) @@ ("6" :> 54) @@ ("7" :> 55) @@ ("8" :> 56) @@ ("9" :> 57) @@
    ("+" :> 43) @@ ("-" :> 45) @@ ("," :> 44) @@ (" " :> 32) @@ ("=" :> 61) @@
    ("." :> 46) @@ ("\t" :> 9) @@ ("\n" :> 10) @@ ("\r" :> 13) @@
    ("a" :> 97) @@ ("b" :> 98) @@ ("c" :> 99) @@ ("d" :> 100) @@
    ("e" :> 101) @@ ("f" :> 102) @@ ("i" :> 105) @@ ("l" :> 108) @@
    ("n" :> 110) @@ ("r" :> 114) @@ ("s" :> 115) @@ ("t" :> 116) @@
    ("u" :> 117) @@ ("x" :> 120) @@ ("y" :> 121) @@
    ("A" :> 65) @@ ("E" :> 69) @@ ("F" :> 70) @@ ("I" :> 73) @@
    ("N" :> 78) @@ ("T" :> 84)

\* the bytes of an ASCII text given as a sequence of one-character strings
Bytes(s) == [j \in 1..Len(s) |-> Ascii[s[j]]]

RECURSIVE Concat(_)
Concat(ss) == IF ss = <<>> THEN <<>> ELSE Head(ss) \o Concat(Tail(ss))

\* the sequences over S of length at most n
SeqsUpTo(S, n) == UNION {[1..m -> S] : m \in 0..n}

\* Input::take_from / the remainder of Input::take_split
Drop(s, n) == SubSeq(s, n + 1, Len(s))

-----------------------------------------------------------------------------
(* IResult<I, O, E> with E = nom::error::Error<I> *)

Ok(rest, val) == [tag |-> "Ok", rest |-> rest, val |-> val]
Error(pos, kind) == [tag |-> "Error", pos |-> pos, kind |-> kind]
Failure(pos, kind) == [tag |-> "Failure", pos |-> pos, kind |-> kind]
Incomplete == [tag |-> "Incomplete"]
\* the call does not return: it panics, and the panic unwinds through the
\* callers
Panic == [tag |-> "Panic"]

-----------------------------------------------------------------------------
(* UTF-8: how a &str stores its characters *)

\* the storage units of the character with code point cp (char::encode_utf8)
Utf8Encode(cp) ==
    IF cp < 128 THEN <<cp>>
    ELSE IF cp < 2048 THEN <<192 + (cp \div 64), 128 + (cp % 64)>>
    ELSE IF cp < 65536 THEN
        <<224 + (cp \div 4096), 128 + ((cp \div 64) % 64), 128 + (cp % 64)>>
    ELSE <<240 + (cp \div 262144), 128 + ((cp \div 4096) % 64),
           128 + ((cp \div 64) % 64), 128 + (cp % 64)>>

\* str::chars().next(): the code point of the first character of a
\* non-empty, valid UTF-8 sequence
Utf8First(s) ==
    LET b == s[1] IN
    IF b < 128 THEN b
    ELSE IF b < 224 THEN (b - 192) * 64 + (s[2] - 128)
    ELSE IF b < 240 THEN
        (b - 224) * 4096 + (s[2] - 128) * 64 + (s[3] - 128)
    ELSE (b - 240) * 262144 + (s[2] - 128) * 4096
           + (s[3] - 128) * 64 + (s[4] - 128)

\* char::len_utf8
LenUtf8(cp) ==
    IF cp < 128 THEN 1
    ELSE IF cp < 2048 THEN 2
    ELSE IF cp < 65536 THEN 3 ELSE 4

\* input.iter_elements().next() followed by as_char(): the first element
\* of a non-empty input as a character (a byte b becomes the character
\* with code point b)
FirstChar(ik, s) == IF ik = "str" THEN Utf8First(s) ELSE s[1]

\* <char as AsChar>::len: the length of the character's UTF-8 encoding,
\* whatever the input the character was read from
AsCharLen(c) == LenUtf8(c)

\* char::to_digit(10): -1 for None
ToDigit(c) == IF c >= 48 /\ c <= 57 THEN c - 48 ELSE -1

\* the digits at the head of s (digit1 when not empty)
RECURSIVE DigitRun(_)
DigitRun(s) ==
    IF Len(s) > 0 /\ s[1] >= 48 /\ s[1] <= 57
    THEN <<s[1]>> \o DigitRun(Tail(s)) ELSE <<>>

-----------------------------------------------------------------------------
(* Integers of a fixed width.  The widest type has 128 bits, so a value is  *)
(* held as its sign and its magnitude, the magnitude as the little-endian  *)
(* sequence of the type's bytes: [neg |-> FALSE, mag |-> <<57, 48>>] is     *)
(* 12345 of u16.  Zero is never negative.                                  *)

UnsignedTypes == {"u16", "u32", "u64", "u128"}
SignedTypes == {"i8", "i16", "i32", "i64", "i128"}
IntTypes == UnsignedTypes \cup SignedTypes

\* $ty::BITS
Bits(t) ==
    CASE t = "i8" -> 8
      [] t \in {"u16", "i16"} -> 16
      [] t \in {"u32", "i32"} -> 32
      [] t \in {"u64", "i64"} -> 64
      [] t \in {"u128", "i128"} -> 128

\* the bytes of a value of t
Width(t) == Bits(t) \div 8

IntVal(neg, mag) == [neg |-> neg, mag |-> mag]

ZeroMag(t) == [j \in 1..Width(t) |-> 0]

\* the magnitudes of $ty::MAX and of $ty::MIN
MaxMag(t) ==
    [j \in 1..Width(t) |-> IF j = Width(t) /\ t \in SignedTypes THEN 127 ELSE 255]
MinMag(t) ==
    [j \in 1..Width(t) |-> IF j = Width(t) /\ t \in SignedTypes THEN 128 ELSE 0]

\* $ty::MIN and $ty::MAX
IntMin(t) == IntVal(t \in SignedTypes, MinMag(t))
IntMax(t) == IntVal(FALSE, MaxMag(t))

\* mag * k + c, byte by byte: <<the bytes of the result, the carry out of
\* the top byte>>
RECURSIVE MulAddMag(_, _, _)
MulAddMag(mag, k, c) ==
    IF mag = <<>> THEN <<<<>>, c>>
    ELSE LET x == mag[1] * k + c
             r == MulAddMag(Tail(mag), k, x \div 256)
         IN  <<<<x % 256>> \o r[1], r[2]>>

\* the result r of MulAddMag is the magnitude of a value of t: nothing was
\* carried out, and for a signed type the magnitude is at most 2^(BITS-1)-1,
\* or 2^(BITS-1) for a negative value
InRange(t, neg, r) ==
    /\ r[2] = 0
    /\ \/ t \in UnsignedTypes
       \/ r[1][Width(t)] < 128
       \/ neg /\ r[1] = MinMag(t)

\* Option<$ty>
None == <<>>
Some(v) == <<v>>

\* checked_mul(10) followed by a wrapping_add(d): the carry out of the
\* addition is dropped (the value is taken modulo 2^BITS; for a signed type
\* the sign bit becomes the sign)
WrappingAdd(t, v, d) ==
    LET m == MulAddMag(v.mag, 10, 0) IN
    IF ~InRange(t, FALSE, m) THEN None
    ELSE LET a == MulAddMag(m[1], 1, d) IN
         IF t \in UnsignedTypes \/ a[1][Width(t)] < 128
         THEN Some(IntVal(FALSE, a[1]))
         ELSE Some(IntVal(TRUE,
                  MulAddMag([j \in 1..Width(t) |-> 255 - a[1][j]], 1, 1)[1]))

\* the negative branch accumulating with checked_add, as the positive one
MulSubAsAdd(t, v, d) ==
    LET m == MulAddMag(v.mag, 10, 0) IN
    IF ~InRange(t, FALSE, m) THEN None
    ELSE LET a == MulAddMag(m[1], 1, d) IN
         IF ~InRange(t, FALSE, a) THEN None ELSE Some(IntVal(FALSE, a[1]))

\* value.checked_mul(10).and_then(|v| v.checked_add(d)) for a value >= 0
CheckedMulAdd(t, v, d) ==
    LET m == MulAddMag(v.mag, 10, 0) IN
    IF ~InRange(t, FALSE, m) THEN None
    ELSE LET a == MulAddMag(m[1], 1, d) IN
         IF ~InRange(t, FALSE, a) THEN None ELSE Some(IntVal(FALSE, a[1]))

\* value.checked_mul(10).and_then(|v| v.checked_sub(d)) for a value <= 0:
\* the magnitude grows, up to the magnitude of $ty::MIN
CheckedMulSub(t, v, d) ==
    LET m == MulAddMag(v.mag, 10, 0) IN
    IF ~InRange(t, TRUE, m) THEN None
    ELSE LET a == MulAddMag(m[1], 1, d) IN
         IF ~InRange(t, TRUE, a) THEN None
         ELSE Some(IntVal(a[1] # ZeroMag(t), a[1]))

\* the loop over i.iter_indices() of the integer decoders: whole is the
\* input the error is positioned at, s the input after the sign, pos the
\* number of digits read
RECURSIVE DigitLoop(_, _, _, _, _, _)
DigitLoop(t, whole, s, pos, value, positive) ==
    IF pos >= Len(s) THEN Ok(<<>>, value)
    ELSE LET d == ToDigit(s[pos + 1]) IN
         IF d < 0 THEN
            IF pos = 0 THEN Error(whole, "Digit")
            ELSE Ok(Drop(s, pos), value)
         ELSE LET v == IF positive THEN CheckedMulAdd(t, value, d)
                       ELSE CheckedMulSub(t, value, d)
              IN  IF v = None THEN Error(whole, "Digit")
                  ELSE DigitLoop(t, whole, s, pos + 1, v[1], positive)

\* nom::character::complete::u16 and its siblings
ParseUnsigned(t, s) ==
    IF Len(s) = 0 THEN Error(s, "Digit")
    ELSE DigitLoop(t, s, s, 0, IntVal(FALSE, ZeroMag(t)), TRUE)

\* nom's sign(): an optional "-" or "+"
SignLen(s) == IF Len(s) > 0 /\ s[1] \in {43, 45} THEN 1 ELSE 0

\* nom::character::complete::i8 and its siblings
ParseSigned(t, s) ==
    LET rest == Drop(s, SignLen(s))
        positive == ~(Len(s) > 0 /\ s[1] = 45)
    IN  IF Len(rest) = 0 THEN Error(s, "Digit")
        ELSE DigitLoop(t, s, rest, 0, IntVal(FALSE, ZeroMag(t)), positive)

-----------------------------------------------------------------------------
(* <char as ParseFrom>::parse, <u8 as ParseFrom>::parse, bool *)

\* input.take_split(n) of a &str or a &[u8]: split_at(n), which panics when
\* n is larger than the input
TakeSplit(s, n, val) == IF n > Len(s) THEN Panic ELSE Ok(Drop(s, n), val)

\* the first element as a character, and take_split of char.len() elements
ParseChar(ik, s) ==
    IF Len(s) = 0 THEN Error(s, "Eof")
    ELSE LET c == FirstChar(ik, s) IN TakeSplit(s, AsCharLen(c), c)

\* item.as_bytes() of the first element of an input whose elements
\* implement AsBytes: the element's own bytes
ItemBytes(s) == s[1]

\* the first element's bytes; one element is taken when they are one byte
ParseU8(s) ==
    IF Len(s) = 0 THEN Error(s, "Eof")
    ELSE LET bytes == ItemBytes(s) IN
         IF Len(bytes) # 1 THEN Error(s, "Char")
         ELSE Ok(Drop(s, Len(bytes)), IntVal(FALSE, <<bytes[1]>>))

\* nom::bytes::complete::tag
Tag(t, s) ==
    IF Len(s) >= Len(t) /\ SubSeq(s, 1, Len(t)) = t THEN Ok(Drop(s, Len(t)), t)
    ELSE Error(s, "Tag")

\* alt((value(true, tag("true")), value(false, tag("false"))))
ParseBool(s) ==
    LET a == Tag(Bytes(<<"t", "r", "u", "e">>), s)
        b == Tag(Bytes(<<"f", "a", "l", "s", "e">>), s)
    IN  IF a.tag = "Ok" THEN Ok(a.rest, TRUE)
        ELSE IF b.tag = "Ok" THEN Ok(b.rest, FALSE)
        ELSE b

-----------------------------------------------------------------------------
(* The floating-point decoders *)

\* u8::to_ascii_lowercase
Lower(b) == IF b >= 65 /\ b <= 90 THEN b + 32 ELSE b

\* nom::bytes::complete::tag_no_case
TagNoCase(t, s) ==
    IF /\ Len(s) >= Len(t)
       /\ \A j \in 1..Len(t) : Lower(s[j]) = Lower(t[j])
    THEN Ok(Drop(s, Len(t)), SubSeq(s, 1, Len(t)))
    ELSE Error(s, "Tag")

\* the length of the mantissa at the head of a, 0 when there is none:
\* alt(((digit1, opt(pair(char('.'), opt(digit1)))), (char('.'), digit1)))
MantissaLen(a) ==
    LET n == Len(DigitRun(a)) IN
    IF n > 0 THEN
        IF Len(a) > n /\ a[n + 1] = 46
        THEN n + 1 + Len(DigitRun(Drop(a, n + 1))) ELSE n
    ELSE IF Len(a) > 0 /\ a[1] = 46 /\ Len(DigitRun(Drop(a, 1))) > 0
         THEN 1 + Len(DigitRun(Drop(a, 1))) ELSE 0

\* nom::number::complete::recognize_float: an optional sign, the mantissa,
\* and opt((alt((char('e'), char('E'))), opt(sign), cut(digit1))): after an
\* "e" the missing digits of the exponent are a Failure.  Without a
\* mantissa the error is that of the last alternative, (char('.'), digit1):
\* of digit1 after a ".", of char('.') otherwise
RecognizeFloat(s) ==
    LET sl == SignLen(s)
        a == Drop(s, sl)
        ml == MantissaLen(a)
        b == Drop(s, sl + ml)
        c == Drop(b, 1)
        el == SignLen(c)
        en == Len(DigitRun(Drop(c, el)))
    IN  IF ml = 0 THEN
            IF Len(a) > 0 /\ a[1] = 46 THEN Error(Drop(a, 1), "Digit")
            ELSE Error(a, "Char")
        ELSE IF ~(Len(b) > 0 /\ b[1] \in {101, 69})
             THEN Ok(b, SubSeq(s, 1, sl + ml))
        ELSE IF en = 0 THEN Failure(Drop(c, el), "Digit")
        ELSE Ok(Drop(c, el + en), SubSeq(s, 1, sl + ml + 1 + el + en))

\* nom::number::complete::recognize_float_or_exceptions: recognize_float
\* with its error repositioned at the input, or, tried in this order, "nan",
\* "inf", "infinity" in any case (the first that matches is taken: of
\* "infinity" the "inf")
RecognizeFloatOrExceptions(s) ==
    LET f == RecognizeFloat(s)
        nan == TagNoCase(Bytes(<<"n", "a", "n">>), s)
        infinity == TagNoCase(Bytes(<<"i", "n", "f", "i", "n", "i", "t", "y">>), s)
        inf == TagNoCase(Bytes(<<"i", "n", "f">>), s)
    IN  IF f.tag = "Ok" THEN f
        ELSE IF f.tag = "Failure" THEN Failure(s, "Float")
        ELSE IF nan.tag = "Ok" THEN nan
        ELSE IF inf.tag = "Ok" THEN inf
        ELSE IF infinity.tag = "Ok" THEN infinity
        ELSE Error(s, "Float")

\* the value of a short run of digits
RECURSIVE DigitsValue(_)
DigitsValue(d) ==
    IF d = <<>> THEN 0 ELSE DigitsValue(SubSeq(d, 1, Len(d) - 1)) * 10
                            + (d[Len(d)] - 48)

RECURSIVE StripZeros(_)
StripZeros(d) == IF Len(d) > 0 /\ d[1] = 48 THEN StripZeros(Tail(d)) ELSE d

\* the zeros at the end of d
RECURSIVE TrailingZeros(_)
TrailingZeros(d) ==
    IF Len(d) > 0 /\ d[Len(d)] = 48
    THEN 1 + TrailingZeros(SubSeq(d, 1, Len(d) - 1)) ELSE 0

\* the decimal number neg, digits * 10^exp without the zeros at either end
\* of its digits
Decimal(neg, digits, exp) ==
    LET d == StripZeros(digits)
        z == TrailingZeros(d)
    IN  IF d = <<>> THEN [neg |-> neg, digits |-> <<>>, exp |-> 0]
        ELSE [neg |-> neg, digits |-> SubSeq(d, 1, Len(d) - z), exp |-> exp + z]

\* $ty::from_str of a lexeme that recognize_float_or_exceptions returned.
\* The float is held as the number it was read from: "nan", "inf", or the
\* decimal number that from_str rounds to the nearest value of $ty.
FromStr(lex) ==
    LET sl == SignLen(lex)
        a == Drop(lex, sl)
        int == DigitRun(a)
        b == Drop(a, Len(int))
        frac == IF Len(b) > 0 /\ b[1] = 46 THEN DigitRun(Drop(b, 1)) ELSE <<>>
        c == Drop(b, IF Len(b) > 0 /\ b[1] = 46 THEN 1 + Len(frac) ELSE 0)
        e == Drop(c, 1)
        eneg == Len(e) > 0 /\ e[1] = 45
        exp == IF c = <<>> THEN 0
               ELSE (IF eneg THEN -1 ELSE 1) * DigitsValue(Drop(e, SignLen(e)))
    IN  IF Lower(lex[1]) = 110 THEN Some([special |-> "nan"])
        ELSE IF Lower(lex[1]) = 105 THEN Some([special |-> "inf"])
        ELSE IF int = <<>> /\ frac = <<>> THEN None
        ELSE Some(Decimal(sl = 1 /\ lex[1] = 45, int \o frac, exp - Len(frac)))

\* <f32 as ParseFrom>::parse and <f64 as ParseFrom>::parse
ParseFloat(s) ==
    LET r == RecognizeFloatOrExceptions(s) IN
    IF r.tag # "Ok" THEN r
    ELSE LET f == FromStr(r.val) IN
         IF f = None THEN Error(r.rest, "Float") ELSE Ok(r.rest, f[1])

-----------------------------------------------------------------------------
(* A decoder supplied by the caller (impl ParseFrom for a type of its own). *)
(* The sample rule looks at the head of the input and covers every outcome  *)
(* of the contract: a value whose Eq is coarser than identity ("a" and "A"  *)
(* compare equal), a success that consumes nothing, and the three error     *)
(* variants.                                                                *)

UserVal(key, id) == [key |-> key, id |-> id]

ParseUser(s) ==
    IF Len(s) = 0 THEN Error(s, "Alpha")
    ELSE CASE s[1] = Ascii["a"] -> Ok(Drop(s, 1), UserVal(0, 0))
           [] s[1] = Ascii["A"] -> Ok(Drop(s, 1), UserVal(0, 1))
           [] s[1] = Ascii["b"] -> Ok(Drop(s, 1), UserVal(1, 0))
           [] s[1] = Ascii["e"] -> Ok(s, UserVal(2, 0))
           [] s[1] = Ascii["F"] -> Failure(s, "Verify")
           [] s[1] = Ascii["I"] -> Incomplete
           [] OTHER -> Error(s, "Alpha")

-----------------------------------------------------------------------------
(* The separators *)

\* nom::character::complete::space0: the spaces and tabs at the head
RECURSIVE SpaceLen(_)
SpaceLen(s) ==
    IF Len(s) > 0 /\ s[1] \in {32, 9} THEN 1 + SpaceLen(Tail(s)) ELSE 0

Space0(s) == Ok(Drop(s, SpaceLen(s)), SubSeq(s, 1, SpaceLen(s)))

\* (space0, tag(t)): the separator without its trailing space0
SeparatorNoTrailingSpace(t, s) ==
    LET a == Space0(s)
        b == Tag(t, a.rest)
    IN  IF b.tag # "Ok" THEN b ELSE Ok(b.rest, t)

\* (space0, opt(tag(t)), space0): the separator with its tag optional
SeparatorOptionalTag(t, s) ==
    LET a == Space0(s)
        b == Tag(t, a.rest)
    IN  IF b.tag # "Ok" THEN Ok(a.rest, <<>>) ELSE Ok(Space0(b.rest).rest, t)

\* (space0, tag(t), space0): the tuple parser used between array elements
\* (t = ",") and between a map's key and value (t = "=")
Separator(t, s) ==
    LET a == Space0(s)
        b == Tag(t, a.rest)
    IN  IF b.tag # "Ok" THEN b ELSE Ok(Space0(b.rest).rest, t)

\* nom::character::complete::line_ending: "\n" or "\r\n"
LineEnding(s) ==
    IF Len(s) >= 1 /\ s[1] = 10 THEN Ok(Drop(s, 1), <<10>>)
    ELSE IF Len(s) >= 2 /\ s[1] = 13 /\ s[2] = 10 THEN Ok(Drop(s, 2), <<13, 10>>)
    ELSE Error(s, "CrLf")

-----------------------------------------------------------------------------
(* The decoders of the types that are not arrays.  A type descriptor is a  *)
(* tuple: <<"u16">>, <<"char">>, <<"T">>, <<"Box", t>>, <<"vec", t>>,       *)
(* <<"hashset", t>>, <<"hashmap", k, v>>, <<"array", n, t>>;                *)
(* <<"pair", k, v>> is the entry of a map.                                  *)

FloatTypes == {"f32", "f64"}

WrapperTypes == {"Box", "Cell", "RefCell", "Rc", "Arc", "Mutex", "RwLock"}

\* Self::new(val) of a wrapper type
New(w, val) == [wrapper |-> w, val |-> val]

\* K: Eq for the decoded values of type t
EqVal(t, x, y) == IF t = <<"T">> THEN x.key = y.key ELSE x = y

\* HashSet::insert: an element equal to one already present is not stored
HashSetInsert(t, set, v) ==
    IF \E x \in set : EqVal(t, x, v) THEN set ELSE set \cup {v}

\* entry(k).or_insert(v): the value of an equal key is kept
HashMapInsertKeepOld(t, map, e) ==
    IF \E p \in map : EqVal(t, p[1], e[1]) THEN map ELSE map \cup {e}

\* HashMap::insert: the value of an equal key is replaced, the key is kept
HashMapInsert(t, map, e) ==
    IF \E p \in map : EqVal(t, p[1], e[1])
    THEN {IF EqVal(t, p[1], e[1]) THEN <<p[1], e[2]>> ELSE p : p \in map}
    ELSE map \cup {e}

\* list.into_iter().collect() into a HashSet
RECURSIVE CollectSet(_, _, _)
CollectSet(t, set, list) ==
    IF list = <<>> THEN set
    ELSE CollectSet(t, HashSetInsert(t, set, Head(list)), Tail(list))

\* list.into_iter().collect() into a HashMap
RECURSIVE CollectMap(_, _, _)
CollectMap(t, map, list) ==
    IF list = <<>> THEN map
    ELSE CollectMap(t, HashMapInsert(t, map, Head(list)), Tail(list))

\* combinator::map(parser, f): f applied to the value of a success
MapOk(r, val) == IF r.tag = "Ok" THEN Ok(r.rest, val) ELSE r

RECURSIVE Parse(_, _, _)
RECURSIVE SepListLoop(_, _, _, _)

\* the loop ending the list on every error of the separator or the element
SepListLoopSwallow(t, ik, s, acc) ==
    LET sep == LineEnding(s) IN
    IF sep.tag # "Ok" THEN Ok(s, acc)
    ELSE LET e == Parse(t, ik, sep.rest) IN
         IF e.tag # "Ok" THEN Ok(s, acc)
         ELSE IF Len(e.rest) = Len(s) THEN Error(s, "SeparatedList")
         ELSE SepListLoop(t, ik, e.rest, Append(acc, e.val))

\* the loop of multi::separated_list0(line_ending, elem): a recoverable
\* error of the separator or of the element ends the list at s, any other
\* error is returned
SepListLoop(t, ik, s, acc) ==
    LET sep == LineEnding(s) IN
    IF sep.tag = "Error" THEN Ok(s, acc)
    ELSE IF sep.tag # "Ok" THEN sep
    ELSE LET e == Parse(t, ik, sep.rest) IN
         IF e.tag = "Error" THEN Ok(s, acc)
         ELSE IF e.tag # "Ok" THEN e
         ELSE IF Len(e.rest) = Len(s) THEN Error(s, "SeparatedList")
         ELSE SepListLoop(t, ik, e.rest, Append(acc, e.val))

\* multi::separated_list0(line_ending, elem)
SeparatedList0(t, ik, s) ==
    LET e == Parse(t, ik, s) IN
    IF e.tag = "Error" THEN Ok(s, <<>>)
    ELSE IF e.tag # "Ok" THEN e
    ELSE SepListLoop(t, ik, e.rest, <<e.val>>)

\* sequence::separated_pair(K::parse, (space0, tag("="), space0), V::parse)
SeparatedPair(k, v, ik, s) ==
    LET a == Parse(k, ik, s) IN
    IF a.tag # "Ok" THEN a
    ELSE LET b == Separator(<<61>>, a.rest) IN
         IF b.tag # "Ok" THEN b
         ELSE LET c == Parse(v, ik, b.rest) IN
              IF c.tag # "Ok" THEN c ELSE Ok(c.rest, <<a.val, c.val>>)

ParseVec(t, ik, s) == SeparatedList0(t, ik, s)

\* combinator::map(T::parse, |val| Self::new(val))
ParseWrapper(w, t, ik, s) ==
    LET r == Parse(t, ik, s) IN
    IF r.tag = "Ok" THEN MapOk(r, New(w, r.val)) ELSE r

ParseHashSet(t, ik, s) ==
    LET r == SeparatedList0(t, ik, s) IN
    IF r.tag = "Ok" THEN MapOk(r, CollectSet(t, {}, r.val)) ELSE r

ParseHashMap(k, v, ik, s) ==
    LET r == SeparatedList0(<<"pair", k, v>>, ik, s) IN
    IF r.tag = "Ok" THEN MapOk(r, CollectMap(k, {}, r.val)) ELSE r

\* <T as ParseFrom>::parse for every T but the array
Parse(t, ik, s) ==
    CASE t[1] \in UnsignedTypes -> ParseUnsigned(t[1], s)
      [] t[1] \in SignedTypes -> ParseSigned(t[1], s)
      [] t[1] = "char" -> ParseChar(ik, s)
      [] t[1] = "u8" -> ParseU8(s)
      [] t[1] \in FloatTypes -> ParseFloat(s)
      [] t[1] \in WrapperTypes -> ParseWrapper(t[1], t[2], ik, s)
      [] t[1] = "bool" -> ParseBool(s)
      [] t[1] = "T" -> ParseUser(s)
      [] t[1] = "vec" -> ParseVec(t[2], ik, s)
      [] t[1] = "hashset" -> ParseHashSet(t[2], ik, s)
      [] t[1] = "hashmap" -> ParseHashMap(t[2], t[3], ik, s)
      [] t[1] = "pair" -> SeparatedPair(t[2], t[3], ik, s)

-----------------------------------------------------------------------------
(* ParseFromExt::parse_complete: the match on the result of T::parse *)

ResultOk(val) == [tag |-> "Ok", val |-> val]
ResultErr(pos, kind) == [tag |-> "Err", pos |-> pos, kind |-> kind]

\* the match without the guard on the remainder
ParseCompleteUnguarded(r) ==
    CASE r.tag = "Ok" -> ResultOk(r.val)
      [] r.tag = "Incomplete" -> Panic
      [] r.tag \in {"Error", "Failure"} -> ResultErr(r.pos, r.kind)

\* the match with every error, Incomplete too, turned into an Eof error
ParseCompleteLenient(r) ==
    CASE r.tag = "Ok" /\ Len(r.rest) = 0 -> ResultOk(r.val)
      [] r.tag = "Ok" /\ Len(r.rest) # 0 -> ResultErr(r.rest, "Eof")
      [] r.tag = "Incomplete" -> ResultErr(<<>>, "Eof")
      [] r.tag = "Failure" -> ResultErr(r.pos, "Eof")
      [] r.tag = "Error" -> ResultErr(r.pos, r.kind)

ParseCompleteMatch(r) ==
    CASE r.tag = "Ok" /\ Len(r.rest) = 0 -> ResultOk(r.val)
      [] r.tag = "Ok" /\ Len(r.rest) # 0 -> ResultErr(r.rest, "Eof")
      [] r.tag = "Incomplete" -> Panic
      [] r.tag \in {"Error", "Failure"} -> ResultErr(r.pos, r.kind)


-----------------------------------------------------------------------------
(* The inputs of the calls *)

\* mag \div k and mag % k for a small k, from the top byte down, rem being
\* the remainder of the bytes above: <<the quotient's bytes, the remainder>>
RECURSIVE DivMag(_, _, _)
DivMag(mag, k, rem) ==
    IF mag = <<>> THEN <<<<>>, rem>>
    ELSE LET x == rem * 256 + mag[Len(mag)]
             r == DivMag(SubSeq(mag, 1, Len(mag) - 1), k, x % k)
         IN  <<Append(r[1], x \div k), r[2]>>

\* the decimal digits of a magnitude, none for zero
RECURSIVE Digits(_)
Digits(mag) ==
    IF \A j \in 1..Len(mag) : mag[j] = 0 THEN <<>>
    ELSE LET q == DivMag(mag, 10, 0) IN Append(Digits(q[1]), 48 + q[2])

\* Display for the integers: the decimal digits of v, "-" first when v < 0
Display(v) ==
    (IF v.neg THEN <<45>> ELSE <<>>)
        \o (IF Digits(v.mag) = <<>> THEN <<48>> ELSE Digits(v.mag))

\* the bytes of a value of an integer type, u8 too
WidthOf(t) == IF t = "u8" THEN 1 ELSE Width(t)

\* the value of type t of a small integer literal n
Lit(t, n) ==
    LET m == IF n < 0 THEN -n ELSE n IN
    IntVal(n < 0, [j \in 1..WidthOf(t) |->
                      IF j = 1 THEN m % 256
                      ELSE IF j = 2 THEN (m \div 256) % 256
                      ELSE IF j = 3 THEN (m \div 65536) % 256
                      ELSE 0])

\* values at and around the limits of t
SampleValues(t) ==
    {Lit(t, 0), Lit(t, 1), IntMax(t), IntMin(t),
     IntVal(FALSE, [MaxMag(t) EXCEPT ![1] = @ - 1]),
     IntVal(FALSE, DivMag(MaxMag(t), 10, 0)[1])}
    \cup (IF t \in SignedTypes
          THEN {Lit(t, -1), IntVal(TRUE, MaxMag(t)),
                IntVal(TRUE, DivMag(MinMag(t), 10, 0)[1])}
          ELSE {})

Texts(alphabet, n) == {Bytes(w) : w \in SeqsUpTo(alphabet, n)}

Scenario(t, ik, in, g) == [ty |-> t, ikind |-> ik, input |-> in, given |-> g]

Free == [kind |-> "free"]

\* decimal texts around the limits of t, after a prefix and before a tail
IntScenarios ==
    UNION {{Scenario(<<t>>, ik, pre \o Display(v) \o app,
                     [kind |-> "int", v |-> v, pre |-> pre, app |-> app]) :
               ik \in {"str", "bytes"},
               v \in SampleValues(t),
               pre \in {<<>>, Bytes(<<"+">>), Bytes(<<"0">>)},
               app \in {<<>>, Bytes(<<"0">>), Bytes(<<"9">>),
                        Bytes(<<"0", "0">>), Bytes(<<"a">>)}} :
           t \in IntTypes}
    \cup {Scenario(<<t>>, "str", in, Free) :
             t \in IntTypes, in \in Texts({"-", "+", "1", "9", "a"}, MaxLen)}

\* the code points of "a", of a two-, a three- and a four-unit character
CharAlphabet == {97, 233, 8730, 127939}

\* the character decoder on texts and on byte sequences
CharScenarios ==
    {Scenario(<<"char">>, "str",
              Concat([j \in 1..Len(cs) |-> Utf8Encode(cs[j])]),
              [kind |-> "chars", chars |-> cs]) :
        cs \in SeqsUpTo(CharAlphabet, MaxLen)}
    \cup {Scenario(<<"char">>, "bytes", in, Free) :
             in \in SeqsUpTo({49, 195, 169, 255}, MaxLen)}

\* the byte decoder on inputs whose elements are byte strings of no, one
\* and two bytes
ItemScenarios ==
    {Scenario(<<"u8">>, "items", in, Free) :
        in \in SeqsUpTo({<<>>, <<55>>, <<255>>, <<195, 169>>}, MaxLen)}

\* the decimal text of a value of u8 handed to the decoder of u8, as one
\* element and as one element for each byte
ByteScenarios ==
    UNION {{Scenario(<<"u8">>, "items", in,
                     [kind |-> "int", v |-> Lit("u8", n),
                      pre |-> <<>>, app |-> <<>>]) :
               in \in {<<Display(Lit("u8", n))>>,
                       [j \in 1..Len(Display(Lit("u8", n))) |->
                           <<Display(Lit("u8", n))[j]>>]}} :
           n \in {0, 7, 55, 255}}

BoolScenarios ==
    UNION {{Scenario(<<"bool">>, ik, SubSeq(Bytes(w), 1, n), Free) :
               n \in 0..Len(w), ik \in {"str", "bytes"}} :
           w \in {<<"t", "r", "u", "e", "e">>, <<"f", "a", "l", "s", "e", "x">>,
                  <<"t", "r", "u", "x">>, <<"T", "r", "u", "e">>}}

\* float lexemes, special forms and what is near them
FloatWords ==
    {<<"6", "e", "8">>, <<"3", ".", "1", "4", "e", "-", "2">>,
     <<"6", "0", "0", "E", "+", "6", "x">>, <<"-", "0", ".", "5", "0">>,
     <<"n", "a", "n">>, <<"N", "a", "N", "1">>, <<"i", "n", "f">>,
     <<"I", "n", "f", "i", "n", "i", "t", "y">>, <<"i", "n", "f", "i", "n", "i">>,
     <<"-", "i", "n", "f">>, <<"+", "n", "a", "n">>, <<"1", "e", "-">>,
     <<"1", ".", "e", "1">>, <<"-", ".", "5", "e", "1", "0">>}

FloatScenarios ==
    {Scenario(<<t>>, ik, Bytes(w), Free) :
        t \in FloatTypes, ik \in {"str", "bytes"}, w \in FloatWords}
    \cup {Scenario(<<t>>, "str", in, Free) :
             t \in FloatTypes, in \in Texts({"1", "0", ".", "e", "-", "x"}, MaxLen)}

WrapperScenarios ==
    {Scenario(<<w, t>>, "str", in, Free) :
        w \in WrapperTypes, t \in {<<"i32">>, <<"T">>},
        in \in Texts({"1", "-", "a", "F", "I"}, MaxLen - 1)}

UserScenarios ==
    {Scenario(<<"T">>, "str", in, Free) :
        in \in Texts({"a", "A", "b", "e", "F", "I", "x"}, MaxLen)}

\* entry texts of a map, joined by line endings
EntryTexts ==
    {Bytes(w) : w \in {<<"a", "=", "1">>, <<"A", " ", "=", " ", "2">>,
                       <<"b", "=", "2">>, <<"a", "1">>, <<"a", "=", "x">>,
                       <<"F", "=", "1">>}}

RECURSIVE Join(_, _)
Join(items, seps) ==
    IF Len(items) = 0 THEN <<>>
    ELSE IF Len(items) = 1 THEN items[1]
    ELSE items[1] \o seps[1] \o Join(Tail(items), Tail(seps))

MapInputs ==
    UNION {{Join(es, [j \in 1..(n - 1) |-> le]) \o tl :
               es \in [1..n -> EntryTexts],
               le \in {<<10>>, <<13, 10>>},
               tl \in {<<>>, <<10>>}} :
           n \in 0..MaxEntries}

CollectionScenarios ==
    {Scenario(<<c, <<"u16">>>>, "str", in, Free) :
        c \in {"vec", "hashset"},
        in \in Texts({"1", "2", "x", "\n", "\r"}, MaxLen + 1)}

UserCollectionScenarios ==
    {Scenario(<<c, <<"T">>>>, "str", in, Free) :
        c \in {"vec", "hashset"},
        in \in Texts({"a", "A", "b", "e", "F", "I", "\n"}, MaxLen)}

MapScenarios ==
    {Scenario(<<"hashmap", <<"T">>, <<"u16">>>>, "str", in, Free) :
        in \in MapInputs}

\* element lexemes of an array input, each with the value it stands for:
\* the text the element decoder takes and the value it returns for it (for
\* a character read from bytes, a byte of 128 or more and the byte after it)
Lexemes(t, ik) ==
    IF t = <<"u32">>
    THEN {[text |-> Display(v), val |-> v] : v \in {Lit("u32", 1), IntMax("u32")}}
    ELSE IF ik = "str"
    THEN {[text |-> Utf8Encode(c), val |-> c] : c \in {97, 32, 233}}
    ELSE {[text |-> <<97>>, val |-> 97], [text |-> <<32>>, val |-> 32],
          [text |-> <<195, 169>>, val |-> 195]}

\* (horizontal whitespace, a comma, horizontal whitespace)
SepTexts == {<<44>>, <<44, 32>>, <<32, 9, 44>>}

ListScenarios(t, ik, n) ==
    {Scenario(<<"array", n, t>>, ik,
              Join([j \in 1..n |-> ls[j].text], sp) \o tl,
              [kind |-> "list", vals |-> [j \in 1..n |-> ls[j].val],
               heads |-> [j \in 1..n |-> ls[j].text[1]],
               tail |-> tl]) :
        ls \in [1..n -> Lexemes(t, ik)],
        sp \in [1..(n - 1) -> SepTexts],
        tl \in {<<>>, <<44>>, <<32, 120>>}}

ArrayScenarios ==
    {Scenario(<<"array", n, <<"u16">>>>, "str", in, Free) :
        n \in 0..MaxN, in \in Texts({"1", ",", " ", "x"}, MaxLen + 1)}

\* [char; N] on byte sequences with bytes of 128 and more
ByteArrayScenarios ==
    {Scenario(<<"array", n, <<"char">>>>, "bytes", in, Free) :
        n \in 0..MaxN, in \in SeqsUpTo({97, 44, 195}, MaxLen + 1)}

UserArrayScenarios ==
    {Scenario(<<"array", n, <<"T">>>>, "str", in, Free) :
        n \in 0..MaxN, in \in Texts({"a", "F", "I", ","}, MaxLen + 2)}

NestedArrayScenarios ==
    {Scenario(<<"array", n, <<"vec", <<"u16">>>>>>, "str", in, Free) :
        n \in 0..MaxN, in \in Texts({"1", ",", "\n"}, MaxLen)}

\* a call of the repository's tests with the result the test asserts
Test(t, ik, in, complete, expect) ==
    Scenario(t, ik, in, [kind |-> "test", complete |-> complete, expect |-> expect])

\* the lines "1".."5" and the entries "a = 1".."e = 5" of the tests' inputs
Lines15 == Bytes(<<"1", "\n", "2", "\n", "3", "\n", "4", "\n", "5">>)
Entries15 ==
    Bytes(<<"a", " ", "=", " ", "1", "\n", "b", " ", "=", " ", "2", "\n",
            "c", " ", "=", " ", "3", "\n", "d", " ", "=", " ", "4", "\n",
            "e", " ", "=", " ", "5">>)

\* mod tests: the calls and the results asserted
TestScenarios ==
    UNION {{Test(<<t>>, ik, Bytes(<<"1", "2", "3">>), TRUE,
                 [tag |-> "Ok", val |-> Lit(t, 123)]),
            Test(<<t>>, ik, Bytes(<<"9", "9", "9", "a">>), FALSE,
                 [tag |-> "Ok", rest |-> <<97>>, val |-> Lit(t, 999)]),
            Test(<<"u16">>, ik, Display(IntMax(t)) \o <<48, 48>>, TRUE,
                 [tag |-> "Err", pos |-> Display(IntMax(t)) \o <<48, 48>>,
                  kind |-> "Digit"])} :
           t \in IntTypes \ {"i8"}, ik \in {"str", "bytes"}}
    \cup UNION {{Test(<<t>>, "str", Bytes(<<"6", "e", "8">>), TRUE,
                      [tag |-> "Ok", val |-> Decimal(FALSE, <<54>>, 8)]),
                 Test(<<t>>, "bytes", Bytes(<<"3", ".", "1", "4", "e", "-", "2">>),
                      TRUE,
                      [tag |-> "Ok", val |-> Decimal(FALSE, <<51, 49, 52>>, -4)])} :
                t \in FloatTypes}
    \cup {Test(<<"vec", <<"u32">>>>, "str", Lines15, TRUE,
               [tag |-> "Ok", val |-> [j \in 1..5 |-> Lit("u32", j)]]),
          Test(<<"hashset", <<"u32">>>>, "str", Lines15, TRUE,
               [tag |-> "Ok", val |-> {Lit("u32", j) : j \in 1..5}]),
          Test(<<"hashmap", <<"char">>, <<"u32">>>>, "str", Entries15, TRUE,
               [tag |-> "Ok", val |-> {<<96 + j, Lit("u32", j)>> : j \in 1..5}]),
          Test(<<"array", 5, <<"u32">>>>, "str",
               Bytes(<<"1", ",", " ", "2", ",", " ", "3", ",", " ", "4", ",",
                       " ", "5">>), TRUE,
               [tag |-> "Ok", val |-> [j \in 1..5 |-> Lit("u32", j)]]),
          Test(<<"array", 0, <<"u32">>>>, "str", <<>>, TRUE,
               [tag |-> "Ok", val |-> <<>>])}
    \cup {Test(<<w, <<"i32">>>>, "str", Bytes(<<"1", "2">>), TRUE,
               [tag |-> "Ok", val |-> New(w, Lit("i32", 12))]) :
             w \in {"Box", "Rc", "Arc"}}

-----------------------------------------------------------------------------
(* The calls *)

IsArray == ty[1] = "array"
\* the const N and the element type T of [T; N]
N == IF IsArray THEN ty[2] ELSE 0
Elem == ty[3]

NoResult == [tag |-> "None"]
\* MaybeUninit::uninit()
Uninit == <<>>

Start(sc) ==
    /\ ty = sc.ty
    /\ ikind = sc.ikind
    /\ input = sc.input
    /\ given = sc.given
    /\ pc = "call"
    /\ res = NoResult
    /\ out = NoResult
    /\ arr = [j \in 1..(IF sc.ty[1] = "array" THEN sc.ty[2] ELSE 0) |-> Uninit]
    /\ drops = [j \in 1..(IF sc.ty[1] = "array" THEN sc.ty[2] ELSE 0) |-> 0]
    /\ i = 0
    /\ cur = sc.input
    /\ elemDecodes = 0
    /\ sepDecodes = 0

Init ==
    \/ \E sc \in IntScenarios : Start(sc)
    \/ \E sc \in CharScenarios : Start(sc)
    \/ \E sc \in ItemScenarios : Start(sc)
    \/ \E sc \in ByteScenarios : Start(sc)
    \/ \E sc \in FloatScenarios : Start(sc)
    \/ \E sc \in WrapperScenarios : Start(sc)
    \/ \E sc \in BoolScenarios : Start(sc)
    \/ \E sc \in UserScenarios : Start(sc)
    \/ \E sc \in CollectionScenarios : Start(sc)
    \/ \E sc \in UserCollectionScenarios : Start(sc)
    \/ \E sc \in MapScenarios : Start(sc)
    \/ \E n \in 0..MaxN : \E sc \in ListScenarios(<<"u32">>, "str", n) : Start(sc)
    \/ \E n \in 0..MaxN : \E sc \in ListScenarios(<<"char">>, "str", n) : Start(sc)
    \/ \E n \in 0..MaxN : \E sc \in ListScenarios(<<"char">>, "bytes", n) : Start(sc)
    \/ \E sc \in ArrayScenarios : Start(sc)
    \/ \E sc \in ByteArrayScenarios : Start(sc)
    \/ \E sc \in UserArrayScenarios : Start(sc)
    \/ \E sc \in NestedArrayScenarios : Start(sc)
    \/ \E sc \in TestScenarios : Start(sc)

\* T::parse(input) for a T that is not an array
ParseCall ==
    /\ pc = "call"
    /\ ~IsArray
    /\ res' = Parse(ty, ikind, input)
    /\ pc' = "parsed"
    /\ UNCHANGED <<ty, ikind, input, given, out, arr, i, cur, drops,
                   elemDecodes, sepDecodes>>

\* arr[0..=k]: the slot of the failed element destroyed too
DropSlotsThrough(d, k) ==
    [j \in DOMAIN d |-> IF j <= k + 1 THEN d[j] + 1 ELSE d[j]]

\* arr[0..k].iter_mut().for_each(|it| it.assume_init_drop())
DropSlots(d, k) == [j \in DOMAIN d |-> IF j <= k THEN d[j] + 1 ELSE d[j]]

\* arr[k].write(value), k counted from 0
WriteSlot(a, k, value) == [a EXCEPT ![k + 1] = <<value>>]

\* separator.parse(input).map(|(rest, _)| T::parse(rest)), flattened: the
\* separator's error, or the result of the element decoder
SepThenElem(t, ik, s) ==
    LET sep == Separator(<<44>>, s) IN
    IF sep.tag # "Ok" THEN sep ELSE Parse(t, ik, sep.rest)

\* [T; N]::parse with N > 0, up to the loop: element 0
ArrayFirst ==
    /\ pc = "call"
    /\ IsArray
    /\ N > 0
    /\ LET r == Parse(Elem, ikind, cur) IN
       /\ elemDecodes' = elemDecodes + 1
       /\ IF r.tag = "Ok"
          THEN /\ arr' = WriteSlot(arr, 0, r.val)
               /\ cur' = r.rest
               /\ i' = 1
               /\ pc' = "loop"
               /\ res' = res
          ELSE /\ res' = r
               /\ pc' = "parsed"
               /\ UNCHANGED <<arr, cur, i>>
    /\ UNCHANGED <<ty, ikind, input, given, out, drops, sepDecodes>>

\* one iteration of `for i in 1..N`; a panic of the element decoder unwinds
\* past the match, so that no slot is destroyed
ArrayIter ==
    /\ pc = "loop"
    /\ i < N
    /\ LET sep == Separator(<<44>>, cur)
           r == SepThenElem(Elem, ikind, cur)
       IN
       /\ sepDecodes' = sepDecodes + 1
       /\ elemDecodes' = IF sep.tag = "Ok" THEN elemDecodes + 1 ELSE elemDecodes
       /\ IF r.tag = "Ok"
          THEN /\ arr' = WriteSlot(arr, i, r.val)
               /\ cur' = r.rest
               /\ i' = i + 1
               /\ UNCHANGED <<pc, res, drops>>
          ELSE /\ drops' = IF r = Panic THEN drops ELSE DropSlots(drops, i)
               /\ res' = r
               /\ pc' = "parsed"
               /\ UNCHANGED <<arr, cur, i>>
    /\ UNCHANGED <<ty, ikind, input, given, out>>

\* arr.map(|x| unsafe { x.assume_init() })
AssumeInit(a) == [j \in DOMAIN a |-> a[j][1]]

\* Ok((input, arr.map(..))): N = 0, or the loop has run to its end
ArrayReturn ==
    /\ IsArray
    /\ IF N = 0 THEN pc = "call" ELSE pc = "loop" /\ i = N
    /\ res' = Ok(cur, AssumeInit(arr))
    /\ pc' = "parsed"
    /\ UNCHANGED <<ty, ikind, input, given, out, arr, i, cur, drops,
                   elemDecodes, sepDecodes>>

\* the value of the arm Ok((rest, _)) goes out of scope: of a decoded array
\* every element is destroyed
DropValue(d, r) ==
    IF r.tag = "Ok" /\ Len(r.rest) # 0 THEN DropSlots(d, Len(d)) ELSE d

\* T::parse_complete(input): the match on what T::parse returned; a panic
\* of T::parse unwinds through parse_complete
ParseComplete ==
    /\ pc = "parsed"
    /\ out' = IF res = Panic THEN Panic ELSE ParseCompleteMatch(res)
    /\ drops' = DropValue(drops, res)
    /\ pc' = "done"
    /\ UNCHANGED <<ty, ikind, input, given, res, arr, i, cur,
                   elemDecodes, sepDecodes>>

Next == ParseCall \/ ArrayFirst \/ ArrayIter \/ ArrayReturn \/ ParseComplete

Spec == Init /\ [][Next]_vars

-----------------------------------------------------------------------------
(* The repository's tests *)

\* T::parse has returned or panicked
Finished == pc \in {"parsed", "done"}

\* mod tests: every call of the tests returns what its test asserts
TestsPass ==
    given.kind = "test" =>
        /\ (Finished /\ ~given.complete) => res = given.expect
        /\ (pc = "done" /\ given.complete) => out = given.expect

-----------------------------------------------------------------------------
(* The claims *)

Exact == given.kind = "int" /\ given.pre = <<>> /\ given.app = <<>>

\* C1: parse_complete returns Ok(value) only when T::parse succeeded with an
\* empty remainder, and the value is the decoded one; when T::parse succeeds
\* with a non-empty remainder it returns an Eof error positioned at exactly
\* that remainder (an in-range integer followed by "a" fails with Eof at "a")
C1_CompleteConsumption ==
    pc = "done" =>
        /\ out.tag = "Ok" =>
              res.tag = "Ok" /\ res.rest = <<>> /\ out = ResultOk(res.val)
        /\ (res.tag = "Ok" /\ res.rest # <<>>) =>
              out = ResultErr(res.rest, "Eof")
        /\ (/\ ty[1] \in IntTypes
            /\ given.kind = "int"
            /\ given.pre = <<>>
            /\ given.app = Bytes(<<"a">>)) =>
              out = ResultErr(Bytes(<<"a">>), "Eof")

C1_Witness ==
    /\ pc = "done"
    /\ ty = <<"u64">>
    /\ given.kind = "int"
    /\ given.v = IntMax("u64")
    /\ given.pre = <<>>
    /\ given.app = Bytes(<<"a">>)
    /\ res = Ok(Bytes(<<"a">>), IntMax("u64"))
    /\ out = ResultErr(Bytes(<<"a">>), "Eof")

\* C4: when T::parse reports Error(e) or Failure(e), parse_complete returns
\* Err(e) with the position and kind of e; when T::parse reports Incomplete,
\* parse_complete panics and returns neither Ok nor Err
C4_ErrorsPropagate ==
    pc = "done" =>
        /\ res.tag \in {"Error", "Failure"} =>
              out = ResultErr(res.pos, res.kind)
        /\ res.tag = "Incomplete" => out = Panic
        /\ res.tag # "Ok" => out.tag # "Ok"

C4_Witness ==
    /\ pc = "done"
    /\ ty = <<"vec", <<"T">>>>
    /\ res.tag = "Failure"
    /\ res.pos # input
    /\ out = ResultErr(res.pos, "Verify")

\* C5, as stated: for u8 as for the other integer types, parse_complete of
\* the exact decimal text of an in-range value returns that value
C5_RoundTripWithU8 ==
    (pc = "done" /\ Exact /\ ty[1] \in IntTypes \cup {"u8"}) =>
        out = ResultOk(given.v)

\* C5, amended: for the integer types decoded by nom's integer parsers (u16,
\* u32, u64, u128, i8, i16, i32, i64, i128; not u8, which is the raw-byte
\* decoder), parse_complete of the exact decimal text of an in-range value
\* returns that value
C5_RoundTrip ==
    (pc = "done" /\ Exact /\ ty[1] \in IntTypes) => out = ResultOk(given.v)

C5_Witness ==
    /\ pc = "done"
    /\ ty = <<"i128">>
    /\ Exact
    /\ given.v = IntMin("i128")
    /\ Len(input) = 40
    /\ out = ResultOk(IntMin("i128"))

\* a > b for decimal digit sequences without leading zeros
DecGreater(a, b) ==
    \/ Len(a) > Len(b)
    \/ /\ Len(a) = Len(b)
       /\ \E k \in 1..Len(a) :
             a[k] > b[k] /\ \A j \in 1..(k - 1) : a[j] = b[j]

\* s starts with a numeral of type t (for a signed type after an optional
\* sign) whose value lies outside t's range
OutOfRange(t, s) ==
    LET sl == IF t \in SignedTypes THEN SignLen(s) ELSE 0
        neg == sl = 1 /\ s[1] = 45
        run == DigitRun(Drop(s, sl))
        limit == IF neg THEN Digits(MinMag(t)) ELSE Digits(MaxMag(t))
    IN  Len(run) > 0 /\ DecGreater(StripZeros(run), limit)

\* C6: decoding a digit run whose value exceeds the range of the integer
\* type fails with kind Digit positioned at the start of the numeral, from
\* parse and from parse_complete; it never succeeds with a wrapped value
C6_OverflowDetected ==
    (ty[1] \in IntTypes /\ OutOfRange(ty[1], input)) =>
        /\ Finished => res = Error(input, "Digit")
        /\ pc = "done" => out = ResultErr(input, "Digit")

C6_Witness ==
    /\ pc = "done"
    /\ ty = <<"u128">>
    /\ given.kind = "int"
    /\ given.v = IntMax("u128")
    /\ given.pre = <<>>
    /\ given.app = Bytes(<<"0">>)
    /\ Len(input) = 40
    /\ OutOfRange("u128", input)
    /\ out = ResultErr(input, "Digit")

\* C7: on a non-empty input the character decoder returns the first element
\* (for a &str the first logical character, for bytes the first byte) as a
\* character, and as remainder the input after exactly that element (all
\* storage units of the character, and nothing more); on the empty input it
\* fails with kind Eof positioned at the input
C7_OneCharacter ==
    (Finished /\ ty = <<"char">>) =>
        /\ input = <<>> => res = Error(input, "Eof")
        /\ (input # <<>> /\ ikind = "bytes") =>
              res = Ok(Tail(input), input[1])
        /\ (input # <<>> /\ ikind = "str") =>
              res = Ok(Concat([j \in 1..(Len(given.chars) - 1) |->
                                  Utf8Encode(given.chars[j + 1])]),
                       given.chars[1])

\* the decode whose failure made the array decoder return: element 0 at
\* the input, or the separator and then the element at the loop's input
FailedDecode ==
    IF i = 0 THEN Parse(Elem, ikind, cur)
    ELSE LET sep == Separator(<<44>>, cur) IN
         IF sep.tag # "Ok" THEN sep ELSE Parse(Elem, ikind, sep.rest)

\* C2: in the array decoder the constructed slots are exactly the slots
\* below the loop index; when the separator or the element decode fails at
\* slot i (with any error variant) exactly the i elements of slots 0..i are
\* destroyed, each once, no slot at i or above is destroyed, and the decode's
\* own error is returned; an array is returned only with all N slots
\* constructed and none destroyed (parse_complete, when it turns the array
\* down for the input left over, destroys each of its elements once), and
\* no element is ever destroyed twice
C2_ExactCleanup ==
    IsArray =>
        /\ \A j \in 1..N : (arr[j] # Uninit) <=> (j <= i)
        /\ \A j \in 1..N : drops[j] <= 1
        /\ ~Finished => \A j \in 1..N : drops[j] = 0
        /\ (Finished /\ res.tag \in {"Error", "Failure", "Incomplete"}) =>
              /\ i < N
              /\ \A j \in 1..N : drops[j] = (IF j <= i THEN 1 ELSE 0)
              /\ res = FailedDecode
        /\ (Finished /\ res.tag = "Ok") =>
              /\ i = N
              /\ res.val = [j \in 1..N |-> arr[j][1]]
              /\ pc = "parsed" => \A j \in 1..N : drops[j] = 0
              /\ (pc = "done" /\ out.tag = "Ok") =>
                    out.val = res.val /\ \A j \in 1..N : drops[j] = 0
              /\ (pc = "done" /\ out.tag # "Ok") =>
                    \A j \in 1..N : drops[j] = 1

C2_Witness ==
    /\ pc = "parsed"
    /\ ty = <<"array", 3, <<"T">>>>
    /\ i = 2
    /\ res = Failure(Bytes(<<"F">>), "Verify")
    /\ drops = <<1, 1, 0>>
    /\ arr[3] = Uninit

\* C3, as stated: every input of N element lexemes, consecutive ones
\* separated by (horizontal whitespace, a comma, horizontal whitespace),
\* decodes to the N elements in input order with the input after the N-th
\* element as remainder; for N = 0 every input decodes to the empty array
\* with the whole input as remainder
C3_AnyLexemes ==
    (IsArray /\ Finished) =>
        /\ given.kind = "list" => res = Ok(given.tail, given.vals)
        /\ N = 0 => res = Ok(input, <<>>)

\* no lexeme after the first begins with a space or a tab
NoLeadingSpace == \A j \in 2..N : given.heads[j] \notin {32, 9}

\* C3, amended: the same, for inputs in which no element lexeme after the
\* first begins with horizontal whitespace (the separator's trailing
\* whitespace takes a leading space or tab of the next lexeme)
C3_ArrayDecodes ==
    (IsArray /\ Finished) =>
        /\ (given.kind = "list" /\ NoLeadingSpace) =>
              res = Ok(given.tail, given.vals)
        /\ N = 0 => res = Ok(input, <<>>)

C3_Witness ==
    /\ Finished
    /\ ty = <<"array", 3, <<"char">>>>
    /\ ikind = "str"
    /\ given.kind = "list"
    /\ given.vals = <<32, 233, 97>>
    /\ given.tail = <<44>>
    /\ Len(input) > 8
    /\ res = Ok(<<44>>, <<32, 233, 97>>)

IsCollection == ty[1] \in {"vec", "hashset", "hashmap"}

\* what separated_list0 decodes between the line endings
EntryType == IF ty[1] = "hashmap" THEN <<"pair", ty[2], ty[3]>> ELSE ty[2]

NoEntries == IF ty[1] = "vec" THEN res.val = <<>> ELSE res.val = {}

\* for a collection that was returned: the decode that came after its last
\* entry, the first entry at the input or a line ending and then an entry
NextDecode ==
    IF NoEntries THEN Parse(EntryType, ikind, res.rest)
    ELSE LET sep == LineEnding(res.rest) IN
         IF sep.tag # "Ok" THEN sep ELSE Parse(EntryType, ikind, sep.rest)

Suffixes(s) == {Drop(s, k) : k \in 0..Len(s)}

\* the array decoder returns the error of the decode that failed, and
\* returns an array only with all N elements
ArrayAborts ==
    (IsArray /\ Finished) =>
        /\ res.tag \in {"Error", "Failure", "Incomplete"} => res = FailedDecode
        /\ res.tag = "Ok" => Len(res.val) = N /\ elemDecodes = N

\* C8, as stated: a failed element or separator decode inside Vec, HashSet,
\* HashMap or the array makes the decoder return that error; no success is
\* built from the elements decoded before it
C8_NeverSwallowed ==
    /\ ArrayAborts
    /\ (IsCollection /\ Finished /\ res.tag = "Ok" /\ NextDecode.tag # "Ok") =>
          res = NextDecode

\* C8, amended: the array decoder returns every error of its separator and
\* element decodes unchanged.  Vec, HashSet and HashMap return a Failure or
\* an Incomplete of an entry decode unchanged; a recoverable Error of the
\* line ending or of the entry after it ends the collection, which is
\* returned as a success holding the entries decoded so far, the remainder
\* being the input before that line ending
C8_ErrorsInContainers ==
    /\ ArrayAborts
    /\ (IsCollection /\ Finished) =>
          /\ res.tag = "Ok" =>
                NextDecode.tag = "Error" /\ res.rest \in Suffixes(input)
          /\ res.tag # "Ok" =>
                /\ res.tag \in {"Failure", "Incomplete"}
                /\ \E s \in Suffixes(input) : res = Parse(EntryType, ikind, s)

C8_Witness ==
    /\ Finished
    /\ ty = <<"vec", <<"u16">>>>
    /\ input = Bytes(<<"1", "\n", "x">>)
    /\ res = Ok(Bytes(<<"\n", "x">>), <<Lit("u16", 1)>>)
    /\ NextDecode = Error(Bytes(<<"x">>), "Digit")

\* the entries that separated_list0 decoded from the input
Entries == SeparatedList0(EntryType, ikind, input).val

KeyOf(e) == IF ty[1] = "hashmap" THEN e[1] ELSE e

SameKey(a, b) == EqVal(ty[2], KeyOf(a), KeyOf(b))

IsFirst(list, j) == \A k \in 1..(j - 1) : ~SameKey(list[k], list[j])
IsLast(list, j) == \A k \in (j + 1)..Len(list) : ~SameKey(list[k], list[j])

\* C9, as stated: of entries that compare equal (elements of a set, keys of
\* a map) the HashSet/HashMap holds the entry decoded last; no entries give
\* an empty container
C9_LastEntryKept ==
    (Finished /\ ty[1] \in {"hashset", "hashmap"} /\ res.tag = "Ok") =>
        res.val = {Entries[j] : j \in {k \in 1..Len(Entries) : IsLast(Entries, k)}}

\* C9, amended: of elements that compare equal a HashSet holds the one
\* decoded first; of entries whose keys compare equal a HashMap holds the
\* key decoded first with the value decoded last.  Where equal means
\* identical (HashSet<u16>) that is the element decoded last as well; no
\* entries give an empty container
C9_Duplicates ==
    (Finished /\ ty[1] \in {"hashset", "hashmap"} /\ res.tag = "Ok") =>
        LET list == Entries
            firsts == {k \in 1..Len(list) : IsFirst(list, k)}
            lasts == {k \in 1..Len(list) : IsLast(list, k)}
        IN  /\ ty[1] = "hashset" => res.val = {list[j] : j \in firsts}
            /\ ty = <<"hashset", <<"u16">>>> => res.val = {list[j] : j \in lasts}
            /\ ty[1] = "hashmap" =>
                  res.val = {<<list[f][1], list[l][2]>> :
                                <<f, l>> \in {p \in firsts \X lasts :
                                                 SameKey(list[p[1]], list[p[2]])}}
            /\ list = <<>> => res.val = {}

C9_Witness ==
    /\ Finished
    /\ ty[1] = "hashmap"
    /\ input = Bytes(<<"a", "=", "1", "\n", "A", " ", "=", " ", "2">>)
    /\ res = Ok(<<>>, {<<UserVal(0, 0), Lit("u16", 2)>>})

IsPrimitive == ty[1] \in IntTypes \cup FloatTypes \cup {"char", "u8", "bool"}

\* the array decoder makes at most N element decodes and N-1 separator
\* decodes
DecodesBounded ==
    IsArray =>
        /\ elemDecodes <= N
        /\ sepDecodes <= (IF N = 0 THEN 0 ELSE N - 1)

\* a primitive decoder that succeeds has consumed input
PrimitiveConsumes ==
    (IsPrimitive /\ Finished /\ res.tag = "Ok") => Len(res.rest) < Len(input)

\* the steps a call can still take: it falls with every step
Rank ==
    CASE pc = "call" -> N + 3
      [] pc = "loop" -> (N - i) + 2
      [] pc = "parsed" -> 1
      [] pc = "done" -> 0

\* C10, as stated: each step of a primitive decoder and of the array decoder
\* consumes a strictly positive amount of input or fails, and the array
\* decoder makes at most N element decodes and N-1 separator decodes
C10_EveryStepConsumes ==
    [][/\ DecodesBounded'
       /\ PrimitiveConsumes'
       /\ (IsArray /\ i' = i + 1) => Len(cur') < Len(cur)]_vars

\* a step is possible: the guards of the calls, of the array decoder's
\* steps and of parse_complete's match
CanStep ==
    \/ pc = "call"
    \/ pc = "loop" /\ i <= N
    \/ pc = "parsed"

\* C10, amended: every call ends, with a result or a panic (every step
\* lowers the number of steps left, and a call that has not ended can take
\* a step); a primitive decoder consumes a strictly positive amount of input
\* or fails; each iteration of the array decoder's loop (slots 1..N)
\* consumes a strictly positive amount (at least the comma) or fails, while
\* its first step (slot 0) consumes what the element decoder consumes, which
\* is nothing for an element decoder that succeeds without input (a Vec
\* element); the array decoder makes at most N element decodes and N-1
\* separator decodes
C10_Terminates ==
    [][/\ Rank' < Rank
       /\ pc' = "done" \/ CanStep'
       /\ DecodesBounded'
       /\ PrimitiveConsumes'
       /\ (IsArray /\ i' = i + 1 /\ i >= 1) => Len(cur') < Len(cur)
       /\ (IsArray /\ i' = i + 1 /\ i = 0) => cur' \in Suffixes(cur)]_vars

C10_Witness ==
    /\ pc = "done"
    /\ ty = <<"array", 3, <<"vec", <<"u16">>>>>>
    /\ input = Bytes(<<",", "1", ",">>)
    /\ res = Ok(<<>>, <<<<>>, <<Lit("u16", 1)>>, <<>>>>)
    /\ elemDecodes = 3
    /\ sepDecodes = 2

====
